---- MODULE Spec2Model ----
(***************************************************************************)
(* The session interaction state machine of the VoiceAssistant component   *)
(* (src/app/page.tsx): the React state of the component, the speech        *)
(* recognition and speech synthesis objects it drives, and the queries it  *)
(* has sent and not yet heard back from.                                   *)
(*                                                                         *)
(* A callback of the component sees the state of the render that created   *)
(* it.  The callbacks a user reaches (buttons, keys) belong to the latest  *)
(* render.  The recognition handlers are installed by startRecording and   *)
(* keep the render of that call; the continuation of sendMessage after its *)
(* await keeps the render of the call.  Both are modelled by recording the *)
(* captured values (handlers, and the fields of an in-flight query).       *)
(*                                                                         *)
(* A text is a sequence of characters, so that trim() is computed.  The    *)
(* fixed messages of the program are one-token texts.                      *)
(***************************************************************************)
EXTENDS Integers, Sequences, FiniteSets, TLC

\* ---------------------------------------------------------------- bounds
\* No step that appends to the log is taken once the log holds MaxMessages
\* messages.  Every query sent and every utterance spoken comes with a
\* message appended, so this bounds the queries in flight and the synthesis
\* queue as well.  (In FairSpec it is the user who stops at the bound, and
\* the replies to the queries sent are appended past it.)
MaxMessages == 2

\* In the specification of addMessage alone (LogSpec), the number of calls.
MaxAdds == 3

\* ------------------------------------------------------------ input sets
Modes == {"chat", "voice", "voice-cont"}

\* What the user can type into the input box (it starts, and is left after a
\* send, empty).
TypedTexts == { <<" ">>, <<" ", "h">> }

\* What the recognition service can return as a transcript.
Transcripts == { <<"h">> }

\* event.error of a recognition error event: one of the named cases and one
\* that falls to the default branch.
ErrorKinds == {"no-speech", "aborted"}

\* data.answer of a successful reply: absent/empty, or a text.
Answers == { <<>>, <<"o">> }

\* ----------------------------------------------------------------- texts
RECURSIVE TrimStart(_)
TrimStart(s) == IF s # <<>> /\ Head(s) = " " THEN TrimStart(Tail(s)) ELSE s

RECURSIVE TrimEnd(_)
TrimEnd(s) ==
    IF s # <<>> /\ s[Len(s)] = " " THEN TrimEnd(SubSeq(s, 1, Len(s) - 1)) ELSE s

\* String.prototype.trim
trim(s) == TrimEnd(TrimStart(s))

NoInternetText == <<"[x] No internet connection. Please check your network and try again.">>
TimedOutText == <<"[x] Request timed out. Please try again.">>
OfflineText == <<"[x] You appear to be offline. Please check your internet connection.">>
TroubleText == <<"[x] I'm having trouble connecting right now. ">>
FallbackAnswer == <<"I didn't receive a proper response.">>
NotSupportedText == <<"Voice recognition not supported in this browser">>
FailedToStartText == <<"Failed to start voice recognition. Please try again.">>

RecognitionErrorText(kind) ==
    CASE kind = "no-speech" ->
            <<"Voice recognition error. No speech detected. Please try again.">>
      [] kind = "not-allowed" ->
            <<"Voice recognition error. Microphone access denied. Please allow microphone access.">>
      [] kind = "network" ->
            <<"Voice recognition error. Network error. Check your internet connection.">>
      [] OTHER ->
            <<"Voice recognition error. Please try again.">>

\* The arguments of a call addMessage(text, sender, type).
Message(text, sender, type) == [text |-> text, sender |-> sender, type |-> type]

\* The Message that addMessage builds from them: its id is
\* `${Date.now()}-${counter}`, which the counter alone makes unique; the
\* timestamp is not modelled.
Entry(m, id) == [id |-> id, text |-> m.text, sender |-> m.sender, type |-> m.type]

\* The arguments an entry of the log was built from.
Content(e) == Message(e.text, e.sender, e.type)

\* ----------------------------------------------------------------- state
VARIABLES
    messages,           \* useState<Message[]>: the conversation log
    messageCounter,     \* messageCounterRef.current
    timers,             \* ids whose 5000 ms removal timer is pending
    inputText,          \* useState: the input box
    currentMode,        \* useState<ChatMode>
    isProcessing,       \* useState: a query is being dispatched
    isTyping,           \* useState: awaiting the reply
    speechEnabled,      \* useState
    isRecording,        \* useState
    isSpeaking,         \* useState
    connectionOnline,   \* useState
    supported,          \* recognitionRef.current is not null
    recognition,        \* the recognition object: "idle", "listening",
                        \* "stopping" (stop() called, outcome pending),
                        \* "ending" (result or error delivered, end pending)
    live,               \* history: start() was called on the recognition
                        \* object, and since then neither stop() was called
                        \* nor its end event delivered
    handlers,           \* what the installed onresult captured
    utterances,         \* length of the speechSynthesis queue
    synthStarted,       \* the head of the queue is being spoken
    cancelled,          \* an end/error event of a cancelled utterance is pending
    speakingWhenQueued, \* speechSynthesis.speaking is true for a queued,
                        \* not yet started utterance: so in the engines that
                        \* provide SpeechRecognition (Blink, WebKit); elsewhere
                        \* it may be true only once the utterance has started
    inflight,           \* queries sent and not resolved: kind -> count
    last                \* history: the last step taken and what it did

\* What addMessage and its timers read and write.
log == << messages, messageCounter, timers >>

vars == << messages, messageCounter, timers, inputText, currentMode, isProcessing, isTyping,
           speechEnabled, isRecording, isSpeaking, connectionOnline,
           supported, recognition, live, handlers, utterances, synthStarted,
           cancelled, speakingWhenQueued, inflight, last >>

\* A query in flight: the speechEnabled its sendMessage call captured, and
\* (history) whether stopAll ran since it was sent.
QueryKinds == [speechEnabled : BOOLEAN, stopped : BOOLEAN]

\* The values sendMessage of the latest render reads from its closure.
Render ==
    [isProcessing |-> isProcessing, connectionOnline |-> connectionOnline,
     speechEnabled |-> speechEnabled]

\* No handler of the recognition object can still read what it captured:
\* none is installed, or the activation has delivered its outcome (a result
\* or an error comes once per activation, and onend reads nothing).
NoHandlers == [set |-> FALSE]

\* What onresult, installed now, reads from its closure: whether currentMode
\* is "chat", and, when it is not, what the sendMessage it calls reads.
Captured ==
    IF currentMode = "chat" THEN [set |-> TRUE, chat |-> TRUE]
    ELSE [set |-> TRUE, chat |-> FALSE, isProcessing |-> isProcessing,
          connectionOnline |-> connectionOnline, speechEnabled |-> speechEnabled]

NoQuery == [none |-> TRUE]

\* The messages a step appended (as the arguments of their addMessage
\* calls): the log after it, less the log before it.
Added ==
    [i \in 1 .. (Len(messages') - Len(messages)) |->
        Content(messages'[Len(messages) + i])]

\* last: op and arg name the step taken; sent and spoke are the texts it
\* handed to fetch and to speak; query is the query a reply step resolved.
Record(op, arg, sent, spoke, query) ==
    last' = [op |-> op, arg |-> arg, sent |-> sent, spoke |-> spoke,
             query |-> query]

InFlightCount ==
    LET RECURSIVE Sum(_)
        Sum(S) == IF S = {} THEN 0
                  ELSE LET k == CHOOSE x \in S : TRUE
                       IN  inflight[k] + Sum(S \ {k})
    IN  Sum(QueryKinds)

\* The calls addMessage(ms[1]), addMessage(ms[2]), ... in a row: each takes
\* the next counter value as its id and appends its Message; a status
\* message starts the timer that will remove it.
addMessages(ms) ==
    /\ messages' = messages \o [i \in 1 .. Len(ms) |-> Entry(ms[i], messageCounter + i)]
    /\ messageCounter' = messageCounter + Len(ms)
    /\ timers' = timers \cup { messageCounter + i : i \in { j \in 1 .. Len(ms) : ms[j].type = "status" } }

Init ==
    /\ messages = <<>>
    /\ messageCounter = 0
    /\ timers = {}
    /\ inputText = <<>>
    /\ currentMode = "chat"
    /\ isProcessing = FALSE
    /\ isTyping = FALSE
    /\ speechEnabled = TRUE
    /\ isRecording = FALSE
    /\ isSpeaking = FALSE
    /\ connectionOnline = TRUE
    /\ supported \in BOOLEAN
    /\ recognition = "idle"
    /\ live = FALSE
    /\ handlers = NoHandlers
    /\ utterances = 0
    /\ synthStarted = FALSE
    /\ cancelled = FALSE
    /\ speakingWhenQueued \in (IF supported THEN {TRUE} ELSE BOOLEAN)
    /\ inflight = [k \in QueryKinds |-> 0]
    /\ last = [op |-> "init", arg |-> <<>>, sent |-> <<>>, spoke |-> <<>>,
               query |-> NoQuery]

\* ------------------------------------------------------ speech synthesis
Synth == [utterances |-> utterances, synthStarted |-> synthStarted,
          cancelled |-> cancelled]

SetSynth(s) ==
    /\ utterances' = s.utterances
    /\ synthStarted' = s.synthStarted
    /\ cancelled' = s.cancelled

\* speechSynthesis.speaking
Speaking(s) == IF speakingWhenQueued THEN s.utterances > 0 ELSE s.synthStarted

\* speechSynthesis.cancel(): empties the queue; the utterances removed get
\* their end or error event later.
Cancel(s) ==
    [utterances |-> 0, synthStarted |-> FALSE,
     cancelled |-> s.cancelled \/ s.utterances > 0]

\* if (speechSynthesis.speaking) speechSynthesis.cancel()
CancelIfSpeaking(s) == IF Speaking(s) THEN Cancel(s) ELSE s

\* speak(text) of a render whose speechEnabled is enabled
speak(text, enabled, s) ==
    IF ~enabled \/ text = <<>> THEN s
    ELSE [CancelIfSpeaking(s) EXCEPT !.utterances = @ + 1]

\* utterance.onstart
UtteranceStart ==
    /\ utterances > 0 /\ ~synthStarted /\ ~cancelled
    /\ synthStarted' = TRUE
    /\ isSpeaking' = TRUE
    /\ UNCHANGED << log, inputText, currentMode, isProcessing, isTyping,
                    speechEnabled, isRecording, connectionOnline, supported,
                    recognition, live, handlers, utterances, cancelled,
                    speakingWhenQueued, inflight >>
    /\ Record("utterance.onstart", <<>>, <<>>, <<>>, NoQuery)

\* utterance.onend / utterance.onerror of the utterance being spoken
UtteranceFinish(ev) ==
    /\ synthStarted
    /\ synthStarted' = FALSE
    /\ utterances' = utterances - 1
    /\ isSpeaking' = FALSE
    /\ UNCHANGED << log, inputText, currentMode, isProcessing, isTyping,
                    speechEnabled, isRecording, connectionOnline, supported,
                    recognition, live, handlers, cancelled, speakingWhenQueued,
                    inflight >>
    /\ Record(ev, <<>>, <<>>, <<>>, NoQuery)

\* utterance.onend / utterance.onerror of an utterance that cancel() removed
UtteranceCancelled ==
    /\ cancelled
    /\ cancelled' = FALSE
    /\ isSpeaking' = FALSE
    /\ UNCHANGED << log, inputText, currentMode, isProcessing, isTyping,
                    speechEnabled, isRecording, connectionOnline, supported,
                    recognition, live, handlers, utterances, synthStarted,
                    speakingWhenQueued, inflight >>
    /\ Record("utterance.cancelled", <<>>, <<>>, <<>>, NoQuery)

\* -------------------------------------------------------------- dispatch
\* sendMessage(text) of render r, up to its await: the messages it appends
\* and the texts it hands to fetch.
sendMessage(text, r) ==
    IF trim(text) = <<>> \/ r.isProcessing
    THEN [added |-> <<>>, sent |-> <<>>]
    ELSE IF ~r.connectionOnline
    THEN [added |-> << Message(NoInternetText, "bot", "error") >>, sent |-> <<>>]
    ELSE [added |-> << Message(text, "user", "text") >>, sent |-> << text >>]

\* The state sendMessage leaves when it returns at its await (or earlier):
\* e is sendMessage(text, r), before the messages the caller appended first.
Sent(before, e, r) ==
    /\ before \o e.added # <<>> => Len(messages) < MaxMessages
    /\ addMessages(before \o e.added)
    /\ IF e.sent # <<>>
       THEN /\ isProcessing' = TRUE
            /\ isTyping' = TRUE
            /\ inflight' =
                 [inflight EXCEPT
                    ![[speechEnabled |-> r.speechEnabled, stopped |-> FALSE]] = @ + 1]
       ELSE UNCHANGED << isProcessing, isTyping, inflight >>

\* onChange of the input box (rendered in chat mode only)
SetInputText(t) ==
    /\ currentMode = "chat"
    /\ inputText' = t
    /\ UNCHANGED << log, currentMode, isProcessing, isTyping,
                    speechEnabled, isRecording, isSpeaking, connectionOnline,
                    supported, recognition, live, handlers, utterances, synthStarted,
                    cancelled, speakingWhenQueued, inflight >>
    /\ Record("setInputText", t, <<>>, <<>>, NoQuery)

\* handleSendText: the Send button and Enter in the input box (chat mode)
HandleSendText ==
    /\ currentMode = "chat"
    /\ LET t == trim(inputText)
           e == IF t # <<>> THEN sendMessage(t, Render)
                ELSE [added |-> <<>>, sent |-> <<>>]
       IN  /\ Sent(<<>>, e, Render)
           /\ inputText' = IF t # <<>> THEN <<>> ELSE inputText
           /\ UNCHANGED << currentMode, speechEnabled, isRecording, isSpeaking,
                           connectionOnline, supported, recognition, live, handlers,
                           utterances, synthStarted, cancelled,
                           speakingWhenQueued >>
           /\ Record("handleSendText", inputText, e.sent, <<>>, NoQuery)

\* The continuation of sendMessage on a successful reply with data.answer = a,
\* for a query of kind k.
ReplySuccess(k, a) ==
    /\ inflight[k] > 0
    /\ LET answerText == IF a = <<>> THEN FallbackAnswer ELSE a
           s == IF k.speechEnabled THEN speak(answerText, k.speechEnabled, Synth)
                ELSE Synth
       IN  /\ inflight' = [inflight EXCEPT ![k] = @ - 1]
           /\ isTyping' = FALSE
           /\ addMessages(<< Message(answerText, "bot", "text") >>)
           /\ SetSynth(s)
           /\ isProcessing' = FALSE
           /\ UNCHANGED << inputText, currentMode, speechEnabled, isRecording,
                           isSpeaking, connectionOnline, supported, recognition, live,
                           handlers, speakingWhenQueued >>
           /\ Record("reply", a, <<>>,
                     IF k.speechEnabled THEN << answerText >> ELSE <<>>, k)

\* The text the catch block of sendMessage shows: aborted is the 15000 ms
\* timer having aborted the fetch; navigator.onLine is connectionOnline.
FailureText(aborted) ==
    IF aborted THEN TimedOutText
    ELSE IF ~connectionOnline THEN OfflineText
    ELSE TroubleText

\* ReplyFailure with a catch block that returns after showing the error and
\* never reaches setIsProcessing(false).
ReplyFailureKeepsProcessing(k, aborted) ==
    /\ inflight[k] > 0
    /\ inflight' = [inflight EXCEPT ![k] = @ - 1]
    /\ isTyping' = FALSE
    /\ addMessages(<< Message(FailureText(aborted), "bot", "error") >>)
    /\ UNCHANGED << inputText, currentMode, isProcessing, speechEnabled,
                    isRecording, isSpeaking, connectionOnline, supported,
                    recognition, live, handlers, utterances, synthStarted, cancelled,
                    speakingWhenQueued >>
    /\ Record("failure", aborted, <<>>, <<>>, k)

\* The continuation of sendMessage on a failure: fetch rejects, the response
\* is not ok, or the timer aborts the fetch.
ReplyFailure(k, aborted) ==
    /\ inflight[k] > 0
    /\ inflight' = [inflight EXCEPT ![k] = @ - 1]
    /\ isTyping' = FALSE
    /\ addMessages(<< Message(FailureText(aborted), "bot", "error") >>)
    /\ isProcessing' = FALSE
    /\ UNCHANGED << inputText, currentMode, speechEnabled, isRecording,
                    isSpeaking, connectionOnline, supported, recognition, live,
                    handlers, utterances, synthStarted, cancelled,
                    speakingWhenQueued >>
    /\ Record("failure", aborted, <<>>, <<>>, k)

\* window "online" / "offline" events: the browser fires them when
\* navigator.onLine changes
HandleOnline ==
    /\ ~connectionOnline
    /\ connectionOnline' = TRUE
    /\ UNCHANGED << log, inputText, currentMode, isProcessing, isTyping,
                    speechEnabled, isRecording, isSpeaking, supported,
                    recognition, live, handlers, utterances, synthStarted, cancelled,
                    speakingWhenQueued, inflight >>
    /\ Record("online", <<>>, <<>>, <<>>, NoQuery)

HandleOffline ==
    /\ connectionOnline
    /\ connectionOnline' = FALSE
    /\ UNCHANGED << log, inputText, currentMode, isProcessing, isTyping,
                    speechEnabled, isRecording, isSpeaking, supported,
                    recognition, live, handlers, utterances, synthStarted, cancelled,
                    speakingWhenQueued, inflight >>
    /\ Record("offline", <<>>, <<>>, <<>>, NoQuery)

\* ---------------------------------------------------- speech recognition
\* recognition.onresult with transcript t, run with the render captured when
\* the handlers were installed
OnResult(t) ==
    /\ recognition \in {"listening", "stopping"}
    /\ handlers.set
    /\ IF handlers.chat
       THEN /\ inputText' = t
            /\ UNCHANGED << log, isProcessing, isTyping, inflight >>
            /\ Record("onresult", t, <<>>, <<>>, NoQuery)
       ELSE LET e == sendMessage(t, handlers)
            IN  /\ Sent(<< Message(t, "user", "text") >>, e, handlers)
                /\ UNCHANGED inputText
                /\ Record("onresult", t, e.sent, <<>>, NoQuery)
    /\ isRecording' = FALSE
    /\ recognition' = "ending"
    /\ handlers' = NoHandlers
    /\ UNCHANGED live
    /\ UNCHANGED << currentMode, speechEnabled, isSpeaking, connectionOnline,
                    supported, utterances, synthStarted, cancelled,
                    speakingWhenQueued >>

\* recognition.onerror with event.error = kind
OnError(kind) ==
    /\ recognition \in {"listening", "stopping"}
    /\ handlers.set
    /\ Len(messages) < MaxMessages
    /\ isRecording' = FALSE
    /\ addMessages(<< Message(RecognitionErrorText(kind), "bot", "error") >>)
    /\ recognition' = "ending"
    /\ handlers' = NoHandlers
    /\ UNCHANGED live
    /\ UNCHANGED << inputText, currentMode, isProcessing, isTyping,
                    speechEnabled, isSpeaking, connectionOnline, supported,
                    utterances, synthStarted, cancelled,
                    speakingWhenQueued, inflight >>
    /\ Record("onerror", kind, <<>>, <<>>, NoQuery)

\* onend without its setIsRecording(false).
OnEndKeepsRecording ==
    /\ recognition # "idle"
    /\ recognition' = "idle"
    /\ live' = FALSE
    /\ handlers' = NoHandlers
    /\ UNCHANGED << log, inputText, currentMode, isProcessing, isTyping,
                    speechEnabled, isRecording, isSpeaking, connectionOnline,
                    supported, utterances, synthStarted, cancelled,
                    speakingWhenQueued, inflight >>
    /\ Record("onend", <<>>, <<>>, <<>>, NoQuery)

\* recognition.onend: the activation is over
OnEnd ==
    /\ recognition # "idle"
    /\ isRecording' = FALSE
    /\ recognition' = "idle"
    /\ live' = FALSE
    /\ handlers' = NoHandlers
    /\ UNCHANGED << log, inputText, currentMode, isProcessing, isTyping,
                    speechEnabled, isSpeaking, connectionOnline, supported,
                    utterances, synthStarted, cancelled,
                    speakingWhenQueued, inflight >>
    /\ Record("onend", <<>>, <<>>, <<>>, NoQuery)

\* startRecording without its speechSynthesis.cancel().
startRecordingKeepsSpeaking ==
    IF ~supported
    THEN /\ Len(messages) < MaxMessages
         /\ addMessages(<< Message(NotSupportedText, "bot", "error") >>)
         /\ UNCHANGED << isRecording, recognition, live, handlers, utterances,
                         synthStarted, cancelled >>
    ELSE IF isRecording
    THEN UNCHANGED << log, isRecording, recognition, live, handlers, utterances,
                      synthStarted, cancelled >>
    ELSE /\ UNCHANGED << utterances, synthStarted, cancelled >>
         /\ handlers' = IF recognition = "ending" THEN NoHandlers ELSE Captured
         /\ live' = TRUE
         /\ IF recognition = "idle"
            THEN /\ recognition' = "listening"
                 /\ isRecording' = TRUE
                 /\ UNCHANGED log
            ELSE /\ Len(messages) < MaxMessages
                 /\ isRecording' = FALSE
                 /\ addMessages(<< Message(FailedToStartText, "bot", "error") >>)
                 /\ UNCHANGED recognition

\* startRecording of the latest render.  recognition.start() throws unless
\* the object is idle; the handlers are installed before it is called.
startRecording ==
    IF ~supported
    THEN /\ Len(messages) < MaxMessages
         /\ addMessages(<< Message(NotSupportedText, "bot", "error") >>)
         /\ UNCHANGED << isRecording, recognition, live, handlers, utterances,
                         synthStarted, cancelled >>
    ELSE IF isRecording
    THEN UNCHANGED << log, isRecording, recognition, live, handlers, utterances,
                      synthStarted, cancelled >>
    ELSE /\ SetSynth(CancelIfSpeaking(Synth))
         /\ handlers' = IF recognition = "ending" THEN NoHandlers ELSE Captured
         /\ live' = TRUE
         /\ IF recognition = "idle"
            THEN /\ recognition' = "listening"
                 /\ isRecording' = TRUE
                 /\ UNCHANGED log
            ELSE /\ Len(messages) < MaxMessages
                 /\ isRecording' = FALSE
                 /\ addMessages(<< Message(FailedToStartText, "bot", "error") >>)
                 /\ UNCHANGED recognition

\* recognition.stop(): asks a listening object to finish
Stopped(r) == IF r = "listening" THEN "stopping" ELSE r

\* stopRecording of the latest render
stopRecording ==
    /\ recognition' = IF supported /\ isRecording THEN Stopped(recognition)
                      ELSE recognition
    /\ live' = (live /\ ~(supported /\ isRecording))
    /\ isRecording' = FALSE
    /\ UNCHANGED << log, handlers, utterances, synthStarted, cancelled >>

\* A microphone button rendered in every mode.
ToggleRecordingInAnyMode ==
    /\ IF isRecording THEN stopRecording ELSE startRecording
    /\ UNCHANGED << inputText, currentMode, isProcessing, isTyping,
                    speechEnabled, isSpeaking, connectionOnline, supported,
                    speakingWhenQueued, inflight >>
    /\ Record("toggleRecording", <<>>, <<>>, <<>>, NoQuery)

\* toggleRecording: the microphone button (chat and voice modes) and Ctrl+M
\* (chat mode)
ToggleRecording ==
    /\ currentMode \in {"chat", "voice"}
    /\ IF isRecording THEN stopRecording ELSE startRecording
    /\ UNCHANGED << inputText, currentMode, isProcessing, isTyping,
                    speechEnabled, isSpeaking, connectionOnline, supported,
                    speakingWhenQueued, inflight >>
    /\ Record("toggleRecording", <<>>, <<>>, <<>>, NoQuery)

\* The space key in voice mode calls startRecording
SpaceKey ==
    /\ currentMode = "voice"
    /\ startRecording
    /\ UNCHANGED << inputText, currentMode, isProcessing, isTyping,
                    speechEnabled, isSpeaking, connectionOnline, supported,
                    speakingWhenQueued, inflight >>
    /\ Record("startRecording", <<>>, <<>>, <<>>, NoQuery)

\* toggleSpeaker without its speechSynthesis.cancel().
ToggleSpeakerKeepsSpeaking ==
    /\ speechEnabled' = ~speechEnabled
    /\ UNCHANGED << log, inputText, currentMode, isProcessing, isTyping,
                    isRecording, isSpeaking, connectionOnline, supported,
                    recognition, live, handlers, utterances, synthStarted,
                    cancelled, speakingWhenQueued, inflight >>
    /\ Record("toggleSpeaker", <<>>, <<>>, <<>>, NoQuery)

\* toggleSpeaker: the speaker button and Ctrl+S
ToggleSpeaker ==
    /\ speechEnabled' = ~speechEnabled
    /\ SetSynth(IF speechEnabled THEN CancelIfSpeaking(Synth) ELSE Synth)
    /\ UNCHANGED << log, inputText, currentMode, isProcessing, isTyping,
                    isRecording, isSpeaking, connectionOnline, supported,
                    recognition, live, handlers, speakingWhenQueued, inflight >>
    /\ Record("toggleSpeaker", <<>>, <<>>, <<>>, NoQuery)

\* ------------------------------------------------------ stop and switch
\* The queries in flight after stopAll: none is aborted; each is marked as
\* having been in flight when stopAll ran.
MarkStopped ==
    [k \in QueryKinds |->
       IF k.stopped THEN inflight[k] + inflight[[k EXCEPT !.stopped = FALSE]]
       ELSE 0]

\* stopAll without its setIsTyping(false).
stopAllKeepsTyping ==
    /\ recognition' = IF supported /\ isRecording THEN Stopped(recognition)
                      ELSE recognition
    /\ live' = (live /\ ~(supported /\ isRecording))
    /\ SetSynth(CancelIfSpeaking(Synth))
    /\ isRecording' = FALSE
    /\ isSpeaking' = FALSE
    /\ isProcessing' = FALSE
    /\ inflight' = MarkStopped
    /\ UNCHANGED << log, inputText, isTyping, speechEnabled,
                    connectionOnline, supported, handlers, speakingWhenQueued >>

\* stopAll without its recognition.stop().
stopAllKeepsListening ==
    /\ SetSynth(CancelIfSpeaking(Synth))
    /\ isRecording' = FALSE
    /\ isSpeaking' = FALSE
    /\ isProcessing' = FALSE
    /\ isTyping' = FALSE
    /\ inflight' = MarkStopped
    /\ UNCHANGED << log, inputText, speechEnabled, connectionOnline,
                    supported, recognition, live, handlers, speakingWhenQueued >>

\* stopAll of the latest render.
stopAll ==
    /\ recognition' = IF supported /\ isRecording THEN Stopped(recognition)
                      ELSE recognition
    /\ live' = (live /\ ~(supported /\ isRecording))
    /\ SetSynth(CancelIfSpeaking(Synth))
    /\ isRecording' = FALSE
    /\ isSpeaking' = FALSE
    /\ isProcessing' = FALSE
    /\ isTyping' = FALSE
    /\ inflight' = MarkStopped
    /\ UNCHANGED << log, inputText, speechEnabled, connectionOnline,
                    supported, handlers, speakingWhenQueued >>

\* A stop button that also returns to chat mode.
StopAllResetsMode ==
    /\ stopAll
    /\ currentMode' = "chat"
    /\ Record("stopAll", <<>>, <<>>, <<>>, NoQuery)

\* The stop button and the Escape key
StopAll ==
    /\ stopAll
    /\ UNCHANGED currentMode
    /\ Record("stopAll", <<>>, <<>>, <<>>, NoQuery)

\* switchMode(mode): the mode buttons and Ctrl+1, Ctrl+2, Ctrl+3
SwitchMode(mode) ==
    /\ stopAll
    /\ currentMode' = mode
    /\ Record("switchMode", mode, <<>>, <<>>, NoQuery)

\* ------------------------------------------------------------------ next
\* The log is below the bound of the model.
HasRoom == Len(messages) < MaxMessages

Next ==
    \/ \E t \in TypedTexts : SetInputText(t)
    \/ HandleSendText
    \/ \E k \in QueryKinds, a \in Answers : HasRoom /\ ReplySuccess(k, a)
    \/ \E k \in QueryKinds, aborted \in BOOLEAN :
          HasRoom /\ ReplyFailure(k, aborted)
    \/ HandleOnline
    \/ HandleOffline
    \/ \E t \in Transcripts : OnResult(t)
    \/ \E kind \in ErrorKinds : OnError(kind)
    \/ OnEnd
    \/ ToggleRecording
    \/ SpaceKey
    \/ ToggleSpeaker
    \/ StopAll
    \/ \E mode \in Modes : SwitchMode(mode)
    \/ UtteranceStart
    \/ \E ev \in {"utterance.onend", "utterance.onerror"} : UtteranceFinish(ev)
    \/ UtteranceCancelled

Spec == Init /\ [][Next]_vars

\* ------------------------------------------------------------- fairness
\* Some query in flight resolves: the fetch settles, or its 15000 ms timer
\* aborts it.
Resolve ==
    \/ \E k \in QueryKinds, a \in Answers : ReplySuccess(k, a)
    \/ \E k \in QueryKinds, aborted \in BOOLEAN : ReplyFailure(k, aborted)

\* The log has room for the replies awaited.
Room == Len(messages) + InFlightCount <= MaxMessages

\* The steps of Next, with a reply taken whatever the length of the log and
\* the user acting only while there is room: the steps that send a query
\* are bounded, so the replies are.
FairNext ==
    \/ /\ Room
       /\ \/ \E t \in TypedTexts : SetInputText(t)
          \/ HandleSendText
          \/ ToggleRecording
          \/ SpaceKey
          \/ ToggleSpeaker
          \/ StopAll
          \/ \E mode \in Modes : SwitchMode(mode)
    \/ \E k \in QueryKinds, a \in Answers : ReplySuccess(k, a)
    \/ \E k \in QueryKinds, aborted \in BOOLEAN : ReplyFailure(k, aborted)
    \/ HandleOnline
    \/ HandleOffline
    \/ \E t \in Transcripts : OnResult(t)
    \/ \E kind \in ErrorKinds : OnError(kind)
    \/ OnEnd
    \/ UtteranceStart
    \/ \E ev \in {"utterance.onend", "utterance.onerror"} : UtteranceFinish(ev)
    \/ UtteranceCancelled

\* Every query resolves, and every activation of the recognition object
\* ends with its end event.
FairSpec ==
    /\ Init
    /\ [][FairNext]_vars
    /\ WF_vars(Resolve)
    /\ WF_vars(OnEnd)

\* ------------------------------------------------- addMessage on its own
\* addMessage under any caller: the program itself never passes "status",
\* so the timer branch runs only here.
LogContents ==
    { Message(<<"h">>, sender, type) :
        sender \in {"user", "bot"}, type \in {"text", "status", "error"} }

\* Everything but the log and the history.
Rest ==
    << inputText, currentMode, isProcessing, isTyping, speechEnabled,
       isRecording, isSpeaking, connectionOnline, supported, recognition, live,
       handlers, utterances, synthStarted, cancelled, speakingWhenQueued,
       inflight >>

\* One call addMessage(m.text, m.sender, m.type)
AddMessage(m) ==
    /\ messageCounter < MaxAdds
    /\ addMessages(<< m >>)
    /\ UNCHANGED Rest
    /\ Record("addMessage", m, <<>>, <<>>, NoQuery)

\* prev.filter((msg) => msg.id !== id)
filter(prev, id) == SelectSeq(prev, LAMBDA msg : msg.id # id)

\* A timer callback that drops the status messages whatever their id.
ExpireByType(id) ==
    /\ id \in timers
    /\ timers' = timers \ {id}
    /\ messages' = SelectSeq(messages, LAMBDA msg : msg.type # "status")
    /\ UNCHANGED messageCounter
    /\ UNCHANGED Rest
    /\ Record("expire", id, <<>>, <<>>, NoQuery)

\* The setTimeout callback of the status message with this id, 5000 ms after
\* it was added
Expire(id) ==
    /\ id \in timers
    /\ timers' = timers \ {id}
    /\ messages' = filter(messages, id)
    /\ UNCHANGED messageCounter
    /\ UNCHANGED Rest
    /\ Record("expire", id, <<>>, <<>>, NoQuery)

LogNext ==
    \/ \E m \in LogContents : AddMessage(m)
    \/ \E id \in 1 .. MaxAdds : Expire(id)

\* A timer that was set fires.
LogSpec ==
    /\ Init
    /\ [][LogNext]_vars
    /\ \A id \in 1 .. MaxAdds : WF_vars(Expire(id))

\* ---------------------------------------------------------------- claims
\* The session flags and settings.
Session ==
    << currentMode, isRecording, isSpeaking, isProcessing, isTyping,
       speechEnabled, connectionOnline >>

\* The step just taken handed a text to sendMessage: handleSendText with a
\* non-blank input box, or onresult installed outside chat mode.
Submits ==
    \/ last'.op = "handleSendText" /\ trim(inputText) # <<>>
    \/ last'.op = "onresult" /\ ~handlers.chat

\* C1: right after switchMode(mode), isRecording, isSpeaking, isProcessing
\* and isTyping are all false and currentMode is the requested mode.
C1_SwitchModeQuiesces ==
    last.op = "switchMode" =>
        /\ ~isRecording /\ ~isSpeaking /\ ~isProcessing /\ ~isTyping
        /\ currentMode = last.arg

\* C1 witness: switchMode("voice-cont") has just run over a capture that it
\* stopped and a query that is still in flight.
C1_Witness ==
    /\ last.op = "switchMode" /\ last.arg = "voice-cont"
    /\ recognition = "stopping"
    /\ InFlightCount > 0

\* C2 (as claimed): at most one query is in flight in every reachable state.
C2_AtMostOneInFlight == InFlightCount <= 1

\* C3 (as claimed): the reply (success or failure) to a query that was in
\* flight when stopAll or switchMode ran appends no message, calls speak with
\* nothing and changes no session flag.
C3_StaleReplyDiscarded ==
    [][ (last'.op \in {"reply", "failure"} /\ last'.query.stopped) =>
            /\ Added = <<>>
            /\ last'.spoke = <<>>
            /\ UNCHANGED Session ]_vars

\* C4 (as claimed): a text submitted while isProcessing is true, typed or
\* from the transcript handler, leaves the log as long as it was and
\* dispatches nothing.
C4_SubmitWhileDispatchingIsNoOp ==
    [][ (Submits /\ isProcessing) =>
            /\ Len(messages') = Len(messages)
            /\ last'.sent = <<>> ]_vars

\* C5 (as claimed): in voice or voice-cont mode, online and with no query
\* dispatching, a transcript t appends exactly one user message with text t
\* and is dispatched exactly once.
C5_TranscriptAppendsOnce ==
    [][ ( /\ last'.op = "onresult"
          /\ currentMode \in {"voice", "voice-cont"}
          /\ connectionOnline /\ ~isProcessing ) =>
            /\ Added = << Message(last'.arg, "user", "text") >>
            /\ last'.sent = << last'.arg >> ]_vars

\* C6 (as claimed): a transcript t delivered while currentMode is "chat"
\* appends no message, dispatches nothing and leaves t in the input box.
C6_ChatTranscriptFillsInput ==
    [][ (last'.op = "onresult" /\ currentMode = "chat") =>
            /\ Added = <<>>
            /\ last'.sent = <<>>
            /\ inputText' = last'.arg ]_vars

\* C7 (as claimed): a successful reply calls speak exactly once, with the
\* answer text, when speechEnabled is true as the reply is handled, and does
\* not call it when speechEnabled is false then.
C7_SpeaksIffEnabledAtReply ==
    [][ last'.op = "reply" =>
            last'.spoke = IF speechEnabled
                          THEN << messages'[Len(messages')].text >>
                          ELSE <<>> ]_vars

\* C8: a failed query appends exactly one message, of type error, leaves
\* isTyping and isProcessing false, and calls neither speak nor the speech
\* synthesis.
C8_FailureAppendsOneError ==
    [][ last'.op = "failure" =>
            /\ Len(Added) = 1
            /\ Added[1].type = "error" /\ Added[1].sender = "bot"
            /\ ~isTyping' /\ ~isProcessing'
            /\ last'.spoke = <<>>
            /\ UNCHANGED << utterances, synthStarted, cancelled >> ]_vars

\* C8 witness: the 15000 ms timer has just aborted a query; the log ends with
\* the timed-out error and no flag of the query is left set.
C8_Witness ==
    /\ last.op = "failure" /\ last.arg = TRUE
    /\ messages # <<>>
    /\ Content(messages[Len(messages)]) = Message(TimedOutText, "bot", "error")
    /\ ~isTyping /\ ~isProcessing

\* C9: stopAll can run in every reachable state; it leaves isRecording,
\* isSpeaking, isProcessing and isTyping false, a listening recognition
\* stopped and a speaking synthesis cancelled, and it leaves currentMode,
\* speechEnabled, connectionOnline and the log as they were.
C9_StopAllStopsEverything ==
    /\ []ENABLED StopAll
    /\ [][ last'.op = "stopAll" =>
            /\ ~isRecording' /\ ~isSpeaking' /\ ~isProcessing' /\ ~isTyping'
            /\ isRecording => recognition' # "listening"
            /\ synthStarted => (utterances' = 0 /\ ~synthStarted')
            /\ UNCHANGED << currentMode, speechEnabled, connectionOnline,
                            messages >> ]_vars

\* C9 witness: stopAll has just run outside chat mode, over a capture that it
\* stopped and a playback that it cancelled.
C9_Witness ==
    /\ last.op = "stopAll"
    /\ currentMode # "chat"
    /\ recognition = "stopping"
    /\ cancelled /\ utterances = 0
    /\ ~isRecording /\ ~isSpeaking

\* C10 (as claimed): a blank submission changes nothing; a non-blank text
\* submitted, typed or as a transcript, while connectionOnline is false and
\* no query is dispatching appends exactly one error message and no user
\* message, dispatches nothing and leaves isProcessing and isTyping false.
C10_BlankOrOfflineSubmission ==
    [][ /\ (last'.op = "handleSendText" /\ trim(inputText) = <<>>) =>
              UNCHANGED << messages, inputText, Session, inflight >>
        /\ (Submits /\ trim(last'.arg) # <<>> /\ ~connectionOnline /\ ~isProcessing) =>
              /\ Len(Added) = 1
              /\ Added[1].type = "error"
              /\ last'.sent = <<>>
              /\ ~isProcessing' /\ ~isTyping' ]_vars

\* The log holds a message with this id.
InLog(id) == \E j \in 1 .. Len(messages) : messages[j].id = id

\* C11: a status message is eventually removed; a step that is not the timer
\* callback of a status message keeps every message, in order (it only
\* appends); the callback removes the one message it was set for, a status
\* message, and keeps the others in order.
C11_OnlyStatusExpires ==
    /\ \A id \in 1 .. MaxAdds :
         (\E j \in 1 .. Len(messages) :
             messages[j].id = id /\ messages[j].type = "status") ~> ~InLog(id)
    /\ [][ IF last'.op = "expire"
           THEN \E j \in 1 .. Len(messages) :
                   /\ messages[j].id = last'.arg
                   /\ messages[j].type = "status"
                   /\ messages' = SubSeq(messages, 1, j - 1)
                                    \o SubSeq(messages, j + 1, Len(messages))
           ELSE /\ Len(messages') >= Len(messages)
                /\ SubSeq(messages', 1, Len(messages)) = messages ]_vars

\* C11 witness: the timer of the first of two status messages has just fired;
\* the text message added between them and the second status message remain.
C11_Witness ==
    /\ last.op = "expire" /\ last.arg = 1
    /\ Len(messages) = 2
    /\ messages[1].id = 2 /\ messages[1].type = "text"
    /\ messages[2].id = 3 /\ messages[2].type = "status"

C13_ToggleRecording ==
    [][ last'.op = "toggleRecording" =>
          IF isRecording
          THEN /\ ~isRecording'
               /\ recognition' = Stopped(recognition)
               /\ recognition' # "listening"
          ELSE /\ supported /\ recognition = "idle" =>
                    /\ isRecording'
                    /\ recognition' = "listening"
                    /\ ~Speaking(Synth')
                    /\ Speaking(Synth) => cancelled'
               /\ supported /\ recognition # "idle" =>
                    /\ ~isRecording'
                    /\ Added = << Message(FailedToStartText, "bot", "error") >>
               /\ ~supported =>
                    /\ ~isRecording'
                    /\ Added = << Message(NotSupportedText, "bot", "error") >> ]_vars

\* C13 witness: toggleRecording has started capture while an utterance was
\* being spoken; the utterance is cancelled (its end event is pending and
\* isSpeaking is still true) and the queue is empty.
C13_Witness ==
    /\ last.op = "toggleRecording"
    /\ isRecording /\ recognition = "listening"
    /\ isSpeaking /\ cancelled
    /\ utterances = 0

\* The state of the component and of the browser objects it drives: all
\* variables but the history.
State ==
    << messages, messageCounter, timers, inputText, currentMode, isProcessing,
       isTyping, speechEnabled, isRecording, isSpeaking, connectionOnline,
       supported, recognition, live, handlers, utterances, synthStarted, cancelled,
       speakingWhenQueued, inflight >>

\* C14: a step that changes currentMode is a switchMode step; and
\* switchMode(mode) taken right after switchMode(mode) changes nothing.
C14_OnlySwitchModeChangesMode ==
    /\ [][ currentMode' # currentMode => last'.op = "switchMode" ]_vars
    /\ [][ last'.op = "switchMode" => currentMode' = last'.arg ]_vars
    /\ [][ last.op = "switchMode" /\ last'.op = "switchMode"
             /\ last'.arg = last.arg => State' = State ]_vars

\* C14 witness: switchMode("voice") has run while capturing and awaiting a
\* reply; switchMode("voice") can be taken again.
C14_Witness ==
    /\ last.op = "switchMode" /\ last.arg = "voice"
    /\ currentMode = "voice"
    /\ recognition = "stopping"
    /\ ~isProcessing /\ InFlightCount > 0
    /\ ENABLED SwitchMode("voice")

\* C15 (as claimed): when a handler calls recognition.start(), no earlier
\* start() call is live: stop() has been called or the end event delivered
\* since the last one.
C15_NoStartWhileLive ==
    [][ last'.op \in {"toggleRecording", "startRecording"}
          /\ supported /\ ~isRecording => ~live ]_vars

\* C16 (as claimed): the speechSynthesis queue never holds more than one
\* utterance; a step that calls speak leaves exactly the new utterance in
\* the queue, whatever was queued before; and an empty text is never handed
\* to speechSynthesis.
C16_AtMostOneUtterance ==
    /\ [](utterances <= 1)
    /\ [][ last'.spoke # <<>> => utterances' = 1 ]_vars
    /\ [][ utterances' > utterances =>
             last'.spoke # <<>> /\ last'.spoke[1] # <<>> ]_vars

\* C17: toggleSpeaker negates speechEnabled and leaves the log and every
\* other field as they are; when it disables speech while
\* speechSynthesis.speaking is true, and so whenever an utterance is being
\* spoken, it empties the queue, and otherwise it leaves the queue alone.
\* A second toggleSpeaker right after the first negates speechEnabled back.
C17_ToggleSpeaker ==
    /\ [][ last'.op = "toggleSpeaker" =>
             /\ speechEnabled' = ~speechEnabled
             /\ UNCHANGED << log, inputText, currentMode, isProcessing,
                             isTyping, isRecording, isSpeaking,
                             connectionOnline, supported, recognition, live,
                             handlers, speakingWhenQueued, inflight >>
             /\ IF speechEnabled /\ Speaking(Synth)
                THEN utterances' = 0 /\ ~synthStarted' /\ cancelled'
                ELSE UNCHANGED << utterances, synthStarted, cancelled >>
             /\ speechEnabled /\ synthStarted => utterances' = 0 ]_vars
    /\ [][ last.op = "toggleSpeaker" /\ last'.op = "toggleSpeaker" =>
             speechEnabled' = ~speechEnabled ]_vars

\* C17 witness: toggleSpeaker has disabled speech while an utterance was
\* being spoken: the queue is empty and the end event of the cancelled
\* utterance is pending.
C17_Witness ==
    /\ last.op = "toggleSpeaker"
    /\ ~speechEnabled
    /\ isSpeaking /\ cancelled
    /\ utterances = 0 /\ ~synthStarted

\* C18 (as claimed): while isRecording is true the speechSynthesis queue is
\* empty, nothing being spoken or about to be; and a reply that arrives
\* while isRecording is true hands nothing to speak.
C18_CaptureExcludesPlayback ==
    /\ [](isRecording => utterances = 0)
    /\ [][ last'.op = "reply" /\ isRecording => last'.spoke = <<>> ]_vars

\* C19: isRecording is false whenever currentMode is "voice-cont": the step
\* that enters the mode stops capture, and no step taken in the mode calls
\* recognition.start() or installs the recognition handlers, so no
\* transcript comes from a capture started there.
C19_NoCaptureInVoiceCont ==
    /\ [](currentMode = "voice-cont" =>
            ~isRecording /\ recognition # "listening")
    /\ [][ last'.op = "switchMode" /\ last'.arg = "voice-cont" =>
             ~isRecording' /\ recognition' = Stopped(recognition) ]_vars
    /\ [][ currentMode = "voice-cont" =>
             /\ last'.op \notin {"toggleRecording", "startRecording"}
             /\ live' => live
             /\ handlers'.set => handlers' = handlers ]_vars

\* C19 witness: switchMode("voice-cont") was taken while capturing: the
\* recognition object has been asked to stop and its outcome is pending.
C19_Witness ==
    /\ last.op = "switchMode" /\ last.arg = "voice-cont"
    /\ currentMode = "voice-cont"
    /\ recognition = "stopping" /\ handlers.set
    /\ ~isRecording

====
